---- MODULE Spec2Model ----
(***************************************************************************)
(* BrowserUseTool (src/app/tool/browser_use_tooal.py): one Selenium        *)
(* session shared by the coroutines of an asyncio event loop.              *)
(*                                                                         *)
(* A step of the model is one run of a coroutine between two suspension    *)
(* points.  The Selenium calls are blocking calls made from the event      *)
(* loop, so the only places where another coroutine can run are the        *)
(* awaits: the lock of `async with self.lock`, the web-search call, the    *)
(* language-model call and asyncio.sleep.                                  *)
(***************************************************************************)
EXTENDS Integers, Sequences, FiniteSets, TLC

\* ------------------------------------------------------------------ bounds
NumCallers == 2
MaxLaunch == 2
MaxTabs == 2

\* ------------------------------------------------------- program constants
DefaultScroll == 1080
DefaultSeconds == 3

Callers == 1..NumCallers

\* The callers of the specification with fair scheduling: one more than two,
\* so that two of them can queue on the lock behind the third.
NumLiveCallers == 3

LiveCallers == 1..NumLiveCallers

\* Every coroutine of the model.
Coroutines == Callers \cup LiveCallers

\* ------------------------------------------------------- Optional[...] values
\* Python's None is the empty tuple, a value v is <<v>>.
None == <<>>

Some(v) == <<v>>

\* `x is None`
IsNone(x) == x = <<>>

\* `not x` for an Optional[str]: None and the empty string are falsy.
Falsy(x) == x = <<>> \/ x[1] = ""

\* ------------------------------------------------------------------- pages
BlankUrl == "data:,"
U1 == "https://a.test"
P1 == "https://a.test/"
U2 == "https://b.test/"

\* driver.current_url of a window that was sent to u: the browser reports the
\* URL in its serialised form, which gives an empty path its slash.
Normalize(u) == IF u = U1 THEN P1 ELSE u

\* The pages a window can be on.
Urls == {BlankUrl, P1, U2}

\* The element lists the three XPath/tag queries return on each page as it
\* was loaded, as sequences of element identities in document order.
Clickables(u) ==
  CASE u = P1 -> <<11, 12>>
    [] u = U2 -> <<21>>
    [] OTHER -> <<>>

TextInputs(u) ==
  CASE u = P1 -> <<13>>
    [] OTHER -> <<>>

Selects(u) ==
  CASE u = P1 -> <<14>>
    [] u = U2 -> <<22, 23>>
    [] OTHER -> <<>>


\* The pages are one viewport taller than the window.
ScrollMax == DefaultScroll

Clamp(y) == IF y < 0 THEN 0 ELSE IF y > ScrollMax THEN ScrollMax ELSE y

\* ---------------------------------------------------------------- requests
\* The keyword arguments of execute (lines 158-171); every one but `action`
\* defaults to None.
EmptyReq(a) ==
  [action |-> a, url |-> None, index |-> None, text |-> None,
   scroll_amount |-> None, tab_id |-> None, query |-> None, goal |-> None,
   keys |-> None, seconds |-> None]

NoReq == EmptyReq("none")

StrArgs == {None, Some(""), Some("x")}
UrlArgs == {None, Some(""), Some(U1)}
IndexArgs == {None, Some(-3), Some(-1), Some(0), Some(2)}
AmountArgs == {None, Some(0), Some(DefaultScroll)}
SecondsArgs == {None, Some(0), Some(5)}

\* An action name that is not handled by any branch of execute.
UnknownAction == "fly"

\* Every request, with the arguments an action does not read left at None.
AllRequests ==
  {[EmptyReq(a) EXCEPT !.url = u] : a \in {"go_to_url", "open_tab"}, u \in UrlArgs}
  \cup {EmptyReq(a) : a \in {"go_back", "refresh", "close_tab", UnknownAction}}
  \cup {[EmptyReq("web_search") EXCEPT !.query = q] : q \in StrArgs}
  \cup {[EmptyReq(a) EXCEPT !.index = i] :
          a \in {"click_element", "get_dropdown_options"}, i \in IndexArgs}
  \cup {[EmptyReq(a) EXCEPT !.index = i, !.text = Some("x")] :
          a \in {"input_text", "select_dropdown_option"}, i \in IndexArgs}
  \cup {[EmptyReq(a) EXCEPT !.index = i, !.text = t] :
          a \in {"input_text", "select_dropdown_option"}, i \in {None, Some(0)}, t \in StrArgs}
  \cup {[EmptyReq(a) EXCEPT !.scroll_amount = n] :
          a \in {"scroll_down", "scroll_up"}, n \in AmountArgs}
  \cup {[EmptyReq("scroll_to_text") EXCEPT !.text = t] : t \in StrArgs}
  \cup {[EmptyReq("send_keys") EXCEPT !.keys = k] : k \in StrArgs}
  \cup {[EmptyReq("extract_content") EXCEPT !.goal = g] : g \in StrArgs}
  \cup {[EmptyReq("switch_tab") EXCEPT !.tab_id = i] : i \in IndexArgs}
  \cup {[EmptyReq("wait") EXCEPT !.seconds = n] : n \in SecondsArgs}

\* The requests of the concurrent specification: one action per suspension
\* point of execute, one that runs without suspending, one with a missing
\* required parameter and one with an unknown name.
ConcRequests ==
  {[EmptyReq("go_to_url") EXCEPT !.url = Some(U1)],
   EmptyReq("go_to_url"),
   [EmptyReq("web_search") EXCEPT !.query = Some("x")],
   [EmptyReq("extract_content") EXCEPT !.goal = Some("x")],
   EmptyReq("wait"),
   EmptyReq(UnknownAction)}

\* The "dependencies" table of the tool's parameters (lines 106-122): the
\* parameters each action declares as required.
Dependencies(a) ==
  CASE a \in {"go_to_url", "open_tab"} -> {"url"}
    [] a \in {"click_element", "get_dropdown_options"} -> {"index"}
    [] a \in {"input_text", "select_dropdown_option"} -> {"index", "text"}
    [] a = "switch_tab" -> {"tab_id"}
    [] a \in {"scroll_down", "scroll_up"} -> {"scroll_amount"}
    [] a = "scroll_to_text" -> {"text"}
    [] a = "send_keys" -> {"keys"}
    [] a = "web_search" -> {"query"}
    [] a = "wait" -> {"seconds"}
    [] a = "extract_content" -> {"goal"}
    [] OTHER -> {}

StringParams == {"url", "text", "query", "goal", "keys"}

\* Request r leaves out a parameter its action declares as required.
Omits(r) == \E f \in Dependencies(r.action) : r[f] = None

\* Request r gives the empty string for a required string parameter.
GivesEmpty(r) ==
  \E f \in Dependencies(r.action) \cap StringParams : r[f] # None /\ r[f][1] = ""

\* ----------------------------------------------------------------- results
\* A message is its fixed text, the string it embeds and the number it embeds.
Msg(t, s, n) == [text |-> t, s |-> s, n |-> n]

\* ToolResult(output=...) and ToolResult(error=...): the other fields keep
\* their default None.
ToolResultOutput(m) == [output |-> Some(m), error |-> None, base64_image |-> None]

ToolResultError(m) == [output |-> None, error |-> Some(m), base64_image |-> None]

NoResult == [output |-> None, error |-> None, base64_image |-> None]

\* ----------------------------------------------------------------- session
\* self.driver and the browser behind it, as one value the handlers map to a
\* new one: driver is the handle (0 is None), launched the number of
\* webdriver.Chrome(...) calls so far (handle h is the h-th launch), quits[h]
\* the number of quit() calls made on handle h, tabs the URL of each open
\* window in window_handles order, cur the position of the current window,
\* scrollY the scroll offset of the current page, dom whether a script of the
\* current page has changed its elements since it was loaded (0 or 1).
NoQuits == [h \in 1..MaxLaunch |-> 0]

\* webdriver.Chrome(options=chrome_options) succeeded (line 155): a new
\* browser with one window on the blank page.
Launch(s) ==
  [s EXCEPT !.driver = s.launched + 1, !.launched = s.launched + 1,
            !.tabs = <<BlankUrl>>, !.cur = 1, !.scrollY = 0, !.dom = 0]

CurrentUrl(s) == s.tabs[s.cur]

\* driver.get(u), and the page a click or a history step lands on: the
\* window shows the freshly loaded page at the URL the browser reports.
Nav(s, u) == [s EXCEPT !.tabs[s.cur] = Normalize(u), !.scrollY = 0, !.dom = 0]

\* The clickable elements of page u now: a script of the page that has run
\* (v = 1) has put a button, element 10, in front of the elements the page
\* was loaded with.
LiveClickables(u, v) == IF v = 1 THEN <<10>> \o Clickables(u) ELSE Clickables(u)

ClickablesAsLoaded(s) == Clickables(CurrentUrl(s))

\* driver.find_elements(By.XPATH, "//*[self::a or self::button or ...]") on
\* the current page (lines 230, 392): the list is computed from the page as
\* it is at the call.
ClickableElements(s) == LiveClickables(CurrentUrl(s), s.dom)

ScrollPositions == {0, ScrollMax}

\* seq[i] of a Python list: the 1-based position of index i, 0 when Python
\* raises IndexError.  Negative indices count from the end.
PyPos(seq, i) ==
  IF i >= 0
    THEN (IF i < Len(seq) THEN i + 1 ELSE 0)
    ELSE (IF Len(seq) + i >= 0 THEN Len(seq) + i + 1 ELSE 0)

\* ---------------------------------------------------------------- outcomes
\* What one run of a coroutine between two suspension points leaves: the
\* session, where the coroutine is now ("return", or the await it is suspended
\* in), the value it returned, whether an exception left it, whether it issued
\* a browser command, the element it acted on (0 for none), and what the
\* outcome is owed to when that is not the browser session: "launch_failed",
\* or what the language model gave back; sleep is the argument of the
\* asyncio.sleep call the coroutine is suspended in, if it is.
Ret(s, res, cmd, e) ==
  [s |-> s, next |-> "return", res |-> res, raised |-> FALSE, cmd |-> cmd, elem |-> e,
   cause |-> "none", sleep |-> None]

Await(s, at, cmd) ==
  [s |-> s, next |-> at, res |-> NoResult, raised |-> FALSE, cmd |-> cmd, elem |-> 0,
   cause |-> "none", sleep |-> None]

Raised(s, cmd) ==
  [s |-> s, next |-> "return", res |-> NoResult, raised |-> TRUE, cmd |-> cmd, elem |-> 0,
   cause |-> "none", sleep |-> None]

ReRaise(s, a, cmd, e) == Raised(s, cmd)

Swallowed(s, a, cmd, e) == Ret(s, NoResult, cmd, e)

ExceptTearsDown(s, a, cmd, e) ==
  Ret([s EXCEPT !.driver = 0], ToolResultError(Msg("Browser action failed", a, 0)), cmd, e)

\* except Exception as e: return ToolResult(error=f"Browser action '{action}'
\* failed: {str(e)}") (lines 380-381), reached from any statement of the try
\* block that raised, with the session as the statement left it.
Except(s, a, cmd, e) ==
  Ret(s, ToolResultError(Msg("Browser action failed", a, 0)), cmd, e)

\* The same except clause reached by the IndexError of a list subscript:
\* str(e) is "list index out of range".
IndexError(s, a) ==
  Ret(s, ToolResultError(Msg("Browser action failed: list index out of range", a, 0)), TRUE, 0)

\* A required parameter is missing (the early returns of each branch).
Required(s, what, a) == Ret(s, ToolResultError(Msg(what, a, 0)), FALSE, 0)

\* ---------------------------------------------------------------- handlers
\* Each branch of execute's dispatch (lines 199-378) as the set of outcomes
\* it can have on session s (already initialised) for request r.  Where a
\* Selenium call can raise, the outcome of the except clause is in the set.
GoToUrl(s, r) ==
  IF Falsy(r.url)
    THEN {Required(s, "URL is required", r.action)}
    ELSE {Except(s, r.action, TRUE, 0),
          Except(Nav(s, r.url[1]), r.action, TRUE, 0),
          Ret(Nav(s, r.url[1]), ToolResultOutput(Msg("Navigated to", r.url[1], 0)), TRUE, 0)}

GoBack(s, r) ==
  {Except(s, r.action, TRUE, 0)}
  \cup {Except(Nav(s, u), r.action, TRUE, 0) : u \in Urls}
  \cup {Ret(Nav(s, u), ToolResultOutput(Msg("Navigated back", "", 0)), TRUE, 0) : u \in Urls}

Refresh(s, r) ==
  {Except(s, r.action, TRUE, 0),
   Ret([s EXCEPT !.dom = 0], ToolResultOutput(Msg("Refreshed current page", "", 0)), TRUE, 0)}

WebSearch(s, r) ==
  IF Falsy(r.query)
    THEN {Required(s, "Query is required", r.action)}
    ELSE {Await(s, "search", FALSE)}

\* The page a click leaves the window on: the same page, or the page a link
\* leads to.
ClickTargets(s) == {CurrentUrl(s), U2}

ClickElement(s, r) ==
  IF IsNone(r.index)
    THEN {Required(s, "Index is required", r.action)}
    ELSE LET elements == ClickableElements(s)
             index == r.index[1]
             e == elements[PyPos(elements, index)]
         IN  {Except(s, r.action, TRUE, 0)}
             \cup IF index >= Len(elements)
                    THEN {Ret(s, ToolResultError(Msg("Element with index not found", "", index)), TRUE, 0)}
                    ELSE IF PyPos(elements, index) = 0
                      THEN {IndexError(s, r.action)}
                      ELSE {Except(Nav(s, u), r.action, TRUE, e) : u \in ClickTargets(s) \ {CurrentUrl(s)}}
                           \cup {Except(s, r.action, TRUE, e)}
                           \cup {Ret(IF u = CurrentUrl(s) THEN s ELSE Nav(s, u),
                                     ToolResultOutput(Msg("Clicked element at index", "", index)),
                                     TRUE, e) : u \in ClickTargets(s)}

InputText(s, r) ==
  IF IsNone(r.index) \/ Falsy(r.text)
    THEN {Required(s, "Index and text are required", r.action)}
    ELSE LET elements == TextInputs(CurrentUrl(s))
             index == r.index[1]
             e == elements[PyPos(elements, index)]
         IN  {Except(s, r.action, TRUE, 0)}
             \cup IF index >= Len(elements)
                    THEN {Ret(s, ToolResultError(Msg("Element with index not found", "", index)), TRUE, 0)}
                    ELSE IF PyPos(elements, index) = 0
                      THEN {IndexError(s, r.action)}
                      ELSE {Except(s, r.action, TRUE, e),
                            Ret(s, ToolResultOutput(Msg("Input into element at index", r.text[1], index)),
                                TRUE, e)}

ScrollFalsyDefault(s, r) ==
  LET direction == IF r.action = "scroll_down" THEN 1 ELSE -1
      amount == IF ~IsNone(r.scroll_amount) /\ r.scroll_amount[1] # 0
                  THEN r.scroll_amount[1] ELSE DefaultScroll
  IN  {Except(s, r.action, TRUE, 0),
       Ret([s EXCEPT !.scrollY = Clamp(s.scrollY + direction * amount)],
           ToolResultOutput(Msg(IF direction > 0 THEN "Scrolled down by" ELSE "Scrolled up by",
                                "pixels", amount)),
           TRUE, 0)}

Scroll(s, r) ==
  LET direction == IF r.action = "scroll_down" THEN 1 ELSE -1
      amount == IF ~IsNone(r.scroll_amount) THEN r.scroll_amount[1] ELSE DefaultScroll
  IN  {Except(s, r.action, TRUE, 0),
       Ret([s EXCEPT !.scrollY = Clamp(s.scrollY + direction * amount)],
           ToolResultOutput(Msg(IF direction > 0 THEN "Scrolled down by" ELSE "Scrolled up by",
                                "pixels", amount)),
           TRUE, 0)}

ScrollToText(s, r) ==
  IF Falsy(r.text)
    THEN {Required(s, "Text is required", r.action)}
    ELSE {Ret(s, ToolResultError(Msg("Failed to scroll to text", "", 0)), TRUE, 0)}
         \cup {Ret([s EXCEPT !.scrollY = y],
                   ToolResultOutput(Msg("Scrolled to text", r.text[1], 0)), TRUE, 0) :
               y \in ScrollPositions}

SendKeys(s, r) ==
  IF Falsy(r.keys)
    THEN {Required(s, "Keys are required", r.action)}
    ELSE {Except(s, r.action, TRUE, 0),
          Ret(s, ToolResultOutput(Msg("Sent keys", r.keys[1], 0)), TRUE, 0)}

GetDropdownOptions(s, r) ==
  IF IsNone(r.index)
    THEN {Required(s, "Index is required", r.action)}
    ELSE LET elements == Selects(CurrentUrl(s))
             index == r.index[1]
             e == elements[PyPos(elements, index)]
         IN  {Except(s, r.action, TRUE, 0)}
             \cup IF index >= Len(elements)
                    THEN {Ret(s, ToolResultError(Msg("Element with index not found", "", index)), TRUE, 0)}
                    ELSE IF PyPos(elements, index) = 0
                      THEN {IndexError(s, r.action)}
                      ELSE {Except(s, r.action, TRUE, e),
                            Ret(s, ToolResultOutput(Msg("Dropdown options", "", e)), TRUE, e)}

SelectDropdownOptionOffByOne(s, r) ==
  IF IsNone(r.index) \/ Falsy(r.text)
    THEN {Required(s, "Index and text are required", r.action)}
    ELSE LET elements == Selects(CurrentUrl(s))
             index == r.index[1]
             e == elements[PyPos(elements, index)]
         IN  {Except(s, r.action, TRUE, 0)}
             \cup IF index > Len(elements)
                    THEN {Ret(s, ToolResultError(Msg("Element with index not found", "", index)), TRUE, 0)}
                    ELSE IF PyPos(elements, index) = 0
                      THEN {IndexError(s, r.action)}
                      ELSE {Except(s, r.action, TRUE, e),
                            Ret(s, ToolResultOutput(Msg("Selected option from dropdown at index",
                                                        r.text[1], index)), TRUE, e)}

SelectDropdownOption(s, r) ==
  IF IsNone(r.index) \/ Falsy(r.text)
    THEN {Required(s, "Index and text are required", r.action)}
    ELSE LET elements == Selects(CurrentUrl(s))
             index == r.index[1]
             e == elements[PyPos(elements, index)]
         IN  {Except(s, r.action, TRUE, 0)}
             \cup IF index >= Len(elements)
                    THEN {Ret(s, ToolResultError(Msg("Element with index not found", "", index)), TRUE, 0)}
                    ELSE IF PyPos(elements, index) = 0
                      THEN {IndexError(s, r.action)}
                      ELSE {Except(s, r.action, TRUE, e),
                            Ret(s, ToolResultOutput(Msg("Selected option from dropdown at index",
                                                        r.text[1], index)), TRUE, e)}

ExtractContent(s, r) ==
  IF Falsy(r.goal)
    THEN {Required(s, "Goal is required", r.action)}
    ELSE {Except(s, r.action, TRUE, 0), Await(s, "llm", TRUE)}

SwitchTab(s, r) ==
  IF IsNone(r.tab_id)
    THEN {Required(s, "Tab ID is required", r.action)}
    ELSE LET tab_id == r.tab_id[1]
             switched == [s EXCEPT !.cur = PyPos(s.tabs, tab_id), !.scrollY = 0, !.dom = 0]
         IN  {Except(s, r.action, TRUE, 0)}
             \cup IF tab_id >= Len(s.tabs)
                    THEN {Ret(s, ToolResultError(Msg("Tab with ID not found", "", tab_id)), TRUE, 0)}
                    ELSE IF PyPos(s.tabs, tab_id) = 0
                      THEN {IndexError(s, r.action)}
                      ELSE {Except(switched, r.action, TRUE, 0),
                            Ret(switched, ToolResultOutput(Msg("Switched to tab", "", tab_id)), TRUE, 0)}

OpenTabNoSwitch(s, r) ==
  IF Falsy(r.url)
    THEN {Required(s, "URL is required", r.action)}
    ELSE IF Len(s.tabs) >= MaxTabs
      THEN {}
      ELSE LET opened == [s EXCEPT !.tabs = Append(s.tabs, Normalize(r.url[1]))]
           IN  {Except(s, r.action, TRUE, 0),
                Except(opened, r.action, TRUE, 0),
                Ret(opened, ToolResultOutput(Msg("Opened new tab with", r.url[1], 0)), TRUE, 0)}

\* window.open adds a window at the end of window_handles; the model stops
\* opening windows at MaxTabs.
OpenTab(s, r) ==
  IF Falsy(r.url)
    THEN {Required(s, "URL is required", r.action)}
    ELSE IF Len(s.tabs) >= MaxTabs
      THEN {}
      ELSE LET opened == [s EXCEPT !.tabs = Append(s.tabs, Normalize(r.url[1]))]
               switched == [opened EXCEPT !.cur = Len(opened.tabs), !.scrollY = 0, !.dom = 0]
           IN  {Except(s, r.action, TRUE, 0),
                Except(opened, r.action, TRUE, 0),
                Except(switched, r.action, TRUE, 0),
                Ret(switched, ToolResultOutput(Msg("Opened new tab with", r.url[1], 0)), TRUE, 0)}

CloseTabUnguarded(s, r) ==
  IF Len(s.tabs) >= 1
    THEN LET rest == [i \in 1..(Len(s.tabs) - 1) |->
                        IF i < s.cur THEN s.tabs[i] ELSE s.tabs[i + 1]]
             closed == [s EXCEPT !.tabs = rest, !.cur = Len(rest), !.scrollY = 0, !.dom = 0]
         IN  {Except(s, r.action, TRUE, 0),
              Except(closed, r.action, TRUE, 0),
              Ret(closed, ToolResultOutput(Msg("Closed current tab", "", 0)), TRUE, 0)}
    ELSE {Except(s, r.action, TRUE, 0),
          Ret(s, ToolResultError(Msg("Cannot close the last tab", "", 0)), TRUE, 0)}

CloseTabDropsLast(s, r) ==
  IF Len(s.tabs) > 1
    THEN LET rest == SubSeq(s.tabs, 1, Len(s.tabs) - 1)
             closed == [s EXCEPT !.tabs = rest, !.cur = Len(rest), !.scrollY = 0, !.dom = 0]
         IN  {Except(s, r.action, TRUE, 0),
              Except(closed, r.action, TRUE, 0),
              Ret(closed, ToolResultOutput(Msg("Closed current tab", "", 0)), TRUE, 0)}
    ELSE {Except(s, r.action, TRUE, 0),
          Ret(s, ToolResultError(Msg("Cannot close the last tab", "", 0)), TRUE, 0)}

CloseTab(s, r) ==
  IF Len(s.tabs) > 1
    THEN LET rest == [i \in 1..(Len(s.tabs) - 1) |->
                        IF i < s.cur THEN s.tabs[i] ELSE s.tabs[i + 1]]
             closed == [s EXCEPT !.tabs = rest, !.cur = Len(rest), !.scrollY = 0, !.dom = 0]
         IN  {Except(s, r.action, TRUE, 0),
              Except(closed, r.action, TRUE, 0),
              Ret(closed, ToolResultOutput(Msg("Closed current tab", "", 0)), TRUE, 0)}
    ELSE {Except(s, r.action, TRUE, 0),
          Ret(s, ToolResultError(Msg("Cannot close the last tab", "", 0)), TRUE, 0)}

WaitIgnoresSeconds(s, r) ==
  {[Await(s, "sleep", FALSE) EXCEPT !.sleep = Some(DefaultSeconds)]}

\* Lines 373-374: the duration is the seconds argument unless that is None,
\* and the coroutine suspends in asyncio.sleep for it.
Wait(s, r) ==
  LET seconds_to_wait == IF ~IsNone(r.seconds) THEN r.seconds[1] ELSE DefaultSeconds
  IN  {[Await(s, "sleep", FALSE) EXCEPT !.sleep = Some(seconds_to_wait)]}

Unknown(s, r) == {Ret(s, ToolResultError(Msg("Unknown action", r.action, 0)), FALSE, 0)}

\* The if/elif chain of lines 199-378.
Dispatch(s, r) ==
  CASE r.action = "go_to_url" -> GoToUrl(s, r)
    [] r.action = "go_back" -> GoBack(s, r)
    [] r.action = "refresh" -> Refresh(s, r)
    [] r.action = "web_search" -> WebSearch(s, r)
    [] r.action = "click_element" -> ClickElement(s, r)
    [] r.action = "input_text" -> InputText(s, r)
    [] r.action \in {"scroll_down", "scroll_up"} -> Scroll(s, r)
    [] r.action = "scroll_to_text" -> ScrollToText(s, r)
    [] r.action = "send_keys" -> SendKeys(s, r)
    [] r.action = "get_dropdown_options" -> GetDropdownOptions(s, r)
    [] r.action = "select_dropdown_option" -> SelectDropdownOption(s, r)
    [] r.action = "extract_content" -> ExtractContent(s, r)
    [] r.action = "switch_tab" -> SwitchTab(s, r)
    [] r.action = "open_tab" -> OpenTab(s, r)
    [] r.action = "close_tab" -> CloseTab(s, r)
    [] r.action = "wait" -> Wait(s, r)
    [] OTHER -> Unknown(s, r)

EnsureAlwaysLaunches(s) ==
  {[s |-> s, ok |-> FALSE]}
  \cup (IF s.launched < MaxLaunch THEN {[s |-> Launch(s), ok |-> TRUE]} ELSE {})

\* ------------------------------------------------------- session acquisition
\* _ensure_browser_initialized (lines 137-156): the existing handle, or a
\* launch, which either raises (ok is FALSE, the handle stays None) or sets
\* self.driver.  The model stops launching at MaxLaunch browsers.
EnsureBrowserInitialized(s) ==
  IF s.driver = 0
    THEN {[s |-> s, ok |-> FALSE]}
         \cup (IF s.launched < MaxLaunch THEN {[s |-> Launch(s), ok |-> TRUE]} ELSE {})
    ELSE {[s |-> s, ok |-> TRUE]}

\* The try block of execute up to its first suspension point or its return
\* (lines 192-381): the session is acquired first, then the action is
\* dispatched; a launch that raises is caught by the except clause.
ExecuteBody(s, r) ==
  UNION {IF i.ok
           THEN {[o EXCEPT !.cmd = o.cmd \/ s.driver = 0] : o \in Dispatch(i.s, r)}
           ELSE {[Except(s, r.action, TRUE, 0) EXCEPT !.cause = "launch_failed"]} :
         i \in EnsureBrowserInitialized(s)}

\* ------------------------------------------------------------ collaborators
\* What `await self.web_search_tool.execute(query=..., fetch_content=True,
\* num_results=1)` gives back: an exception, or a response object with a
\* ranked list of results.  The class of the response is the collaborator's:
\* whether its output and error fields are populated is its own business.
\* The collaborator's ranking of the pages for the query, best first.
Ranking == <<U2, U1>>

SearchResponses ==
  {[raises |-> TRUE, results |-> <<>>, output |-> None, error |-> None],
   [raises |-> FALSE, results |-> <<>>, output |-> None, error |-> None],
   [raises |-> FALSE, results |-> <<>>, output |-> None,
    error |-> Some(Msg("All search engines failed", "", 0))],
   [raises |-> FALSE, results |-> <<U2>>, output |-> None, error |-> None],
   [raises |-> FALSE, results |-> <<U2>>,
    output |-> Some(Msg("Search results for", "x", 0)), error |-> None],
   [raises |-> FALSE, results |-> Ranking,
    output |-> Some(Msg("Search results for", "x", 0)), error |-> None]}

\* What `await self.llm.ask_tool(...)` gives back: an exception, no response,
\* a response without tool calls, or a tool call whose arguments are a JSON
\* object, are not JSON, or are JSON but not an object.
LlmResponses ==
  {"raises", "no_response", "no_tool_calls", "object_args", "malformed_args",
   "non_object_args"}

\* web_search after the await (lines 220-224), on the handle d the coroutine
\* took before suspending.  results[0] of an empty list raises IndexError; a
\* command on a handle that is no longer the live session raises.
LastSearchResult(results) == results[Len(results)]

\* first_search_result = search_response.results[0] (line 220).
FirstSearchResult(results) == results[1]

AfterSearch(s, r, d, resp) ==
  IF resp.raises
    THEN {[Except(s, r.action, FALSE, 0) EXCEPT !.cause = "search_raised"]}
    ELSE IF Len(resp.results) = 0
      THEN {[Except(s, r.action, FALSE, 0) EXCEPT !.cause = "no_results"]}
      ELSE {[o EXCEPT !.cause = "results"] : o \in
              IF d # s.driver
                THEN {Except(s, r.action, TRUE, 0)}
                ELSE LET url_to_navigate == FirstSearchResult(resp.results)
                     IN {Except(s, r.action, TRUE, 0),
                         Except(Nav(s, url_to_navigate), r.action, TRUE, 0),
                         Ret(Nav(s, url_to_navigate),
                             [output |-> resp.output, error |-> resp.error,
                              base64_image |-> None],
                             TRUE, 0)}}

AfterLlmLenientParse(s, r, resp) ==
  {[o EXCEPT !.cause = resp] : o \in
     CASE resp \in {"no_response", "no_tool_calls", "malformed_args"} ->
            {Ret(s, ToolResultOutput(Msg("No content was extracted from the page.", "", 0)), FALSE, 0)}
       [] resp = "object_args" ->
            {Ret(s, ToolResultOutput(Msg("Extracted from page", "extracted_content", 0)), FALSE, 0)}
       [] OTHER -> {Except(s, r.action, FALSE, 0)}}

AfterLlmNoCallIsError(s, r, resp) ==
  {[o EXCEPT !.cause = resp] : o \in
     CASE resp = "object_args" ->
            {Ret(s, ToolResultOutput(Msg("Extracted from page", "extracted_content", 0)), FALSE, 0)}
       [] OTHER -> {Except(s, r.action, FALSE, 0)}}

\* extract_content after the await (lines 339-343).
AfterLlm(s, r, resp) ==
  {[o EXCEPT !.cause = resp] : o \in
     CASE resp \in {"no_response", "no_tool_calls"} ->
            {Ret(s, ToolResultOutput(Msg("No content was extracted from the page.", "", 0)), FALSE, 0)}
       [] resp = "object_args" ->
            {Ret(s, ToolResultOutput(Msg("Extracted from page", "extracted_content", 0)), FALSE, 0)}
       [] OTHER -> {Except(s, r.action, FALSE, 0)}}

\* wait after the sleep (lines 373-375).
AfterSleep(s, r) ==
  LET seconds_to_wait == IF ~IsNone(r.seconds) THEN r.seconds[1] ELSE DefaultSeconds
  IN  {Ret(s, ToolResultOutput(Msg("Waited for", "seconds", seconds_to_wait)), FALSE, 0)}

\* ------------------------------------------------------- get_current_state
\* Lines 383-421: the whole body is one try block without any await that
\* suspends; any query that raises gives the failure result.
\* state_info (lines 405-417): the URL of the current window, one entry per
\* window handle carrying that URL for the current window and "" for the
\* others, and the listing of the clickable elements with their indices.
StateInfo(s) ==
  [text |-> "state", url |-> CurrentUrl(s),
   tabs |-> [i \in 1..Len(s.tabs) |-> IF i = s.cur THEN CurrentUrl(s) ELSE ""],
   interactive_elements |-> ClickableElements(s)]

\* The queries get_current_state makes of the browser, in the order of
\* lines 392-408.
StateQueries == {"elements", "scroll", "screenshot", "url", "title", "tabs"}

GetCurrentStatePartial(s) ==
  UNION {IF i.ok
           THEN {[Ret(i.s, [output |-> Some(StateInfo(i.s)), error |-> None,
                            base64_image |-> None], TRUE, 0)
                    EXCEPT !.cause = q] : q \in StateQueries}
                \cup
                {Ret(i.s, [output |-> Some(StateInfo(i.s)), error |-> None,
                           base64_image |-> Some(Msg("screenshot", CurrentUrl(i.s), i.s.scrollY))],
                     TRUE, 0)}
           ELSE {[Ret(s, ToolResultError(Msg("Failed to get browser state", "", 0)), TRUE, 0)
                    EXCEPT !.cause = "launch_failed"]} :
         i \in EnsureBrowserInitialized(s)}

GetCurrentStateScrolls(s) ==
  UNION {IF i.ok
           THEN {[Ret(i.s, ToolResultError(Msg("Failed to get browser state", "", 0)), TRUE, 0)
                    EXCEPT !.cause = q] : q \in StateQueries}
                \cup
                {Ret([i.s EXCEPT !.scrollY = 0],
                     [output |-> Some(StateInfo(i.s)), error |-> None,
                      base64_image |-> Some(Msg("screenshot", CurrentUrl(i.s), 0))],
                     TRUE, 0)}
           ELSE {[Ret(s, ToolResultError(Msg("Failed to get browser state", "", 0)), TRUE, 0)
                    EXCEPT !.cause = "launch_failed"]} :
         i \in EnsureBrowserInitialized(s)}

\* Lines 387-421: the session is acquired; then any query that raises ends
\* the call in the except clause's failure result (cause names the query),
\* and otherwise the snapshot is returned with the screenshot.  None of the
\* queries changes the page.
GetCurrentState(s) ==
  UNION {IF i.ok
           THEN {[Ret(i.s, ToolResultError(Msg("Failed to get browser state", "", 0)), TRUE, 0)
                    EXCEPT !.cause = q] : q \in StateQueries}
                \cup
                {Ret(i.s, [output |-> Some(StateInfo(i.s)), error |-> None,
                           base64_image |-> Some(Msg("screenshot", CurrentUrl(i.s), i.s.scrollY))],
                     TRUE, 0)}
           ELSE {[Ret(s, ToolResultError(Msg("Failed to get browser state", "", 0)), TRUE, 0)
                    EXCEPT !.cause = "launch_failed"]} :
         i \in EnsureBrowserInitialized(s)}

\* ------------------------------------------------------------------ cleanup
CleanupNoFinally(s) ==
  IF s.driver # 0
    THEN {Ret([s EXCEPT !.quits[s.driver] = @ + 1, !.driver = 0,
                        !.tabs = <<>>, !.cur = 0, !.scrollY = 0, !.dom = 0], NoResult, TRUE, 0),
          Raised([s EXCEPT !.quits[s.driver] = @ + 1], TRUE)}
    ELSE {Ret(s, NoResult, FALSE, 0)}

\* Lines 426-430, under the lock: quit() is called on the handle, and the
\* finally clause clears the handle whether or not quit() raised; an
\* exception of quit() leaves cleanup.
Cleanup(s) ==
  IF s.driver # 0
    THEN LET quit == [s EXCEPT !.quits[s.driver] = @ + 1, !.driver = 0,
                               !.tabs = <<>>, !.cur = 0, !.scrollY = 0, !.dom = 0]
         IN  {Ret(quit, NoResult, TRUE, 0), Raised(quit, TRUE)}
    ELSE {Ret(s, NoResult, FALSE, 0)}

\* ------------------------------------------------------------ TokenTrimmer
\* A text is a sequence of characters. The characters the trimmer tells
\* apart are the newline, the space and the backtick (written "^" here);
\* "a" stands for any other character.
NL == "\n"

Tick == "^"

Chars == {"a", " ", Tick, NL}

MaxTextLen == 3

MaxChars == 4

RECURSIVE SeqsUpTo(_, _)
SeqsUpTo(S, n) ==
  IF n = 0 THEN {<<>>}
  ELSE LET shorter == SeqsUpTo(S, n - 1)
       IN shorter \cup {Append(t, c) : t \in {u \in shorter : Len(u) = n - 1}, c \in S}

Fence == <<Tick, Tick, Tick>>

\* Texts with a fenced code block, with repeated lines and with long runs of
\* newlines and spaces, next to every short text.
LongTexts ==
  {Fence \o <<"a">> \o Fence,
   <<"a">> \o Fence \o <<"a", NL>> \o Fence \o <<"a">>,
   Fence \o <<"a">>,
   <<"a", NL, "a", NL, "a">>,
   <<"a", NL, NL, NL, NL, "a">>,
   <<"a", " ", " ", " ", "a">>,
   <<"a", "a", "a", "a", "a", "a">>}

Texts == SeqsUpTo(Chars, MaxTextLen) \cup LongTexts

StartsFence(s, i) == i + 2 <= Len(s) /\ SubSeq(s, i, i + 2) = Fence

\* The position of the first fence at or after i, 0 when there is none.
RECURSIVE FindFence(_, _)
FindFence(s, i) ==
  IF i > Len(s) THEN 0
  ELSE IF StartsFence(s, i) THEN i
  ELSE FindFence(s, i + 1)

\* re.sub of a fenced block by a newline: leftmost matches, each ending at
\* the nearest closing fence (the pattern is lazy).
RECURSIVE StripFrom(_, _)
StripFrom(s, i) ==
  IF i > Len(s) THEN <<>>
  ELSE IF StartsFence(s, i) /\ FindFence(s, i + 3) # 0
       THEN <<NL>> \o StripFrom(s, FindFence(s, i + 3) + 3)
       ELSE <<s[i]>> \o StripFrom(s, i + 1)

StripCode(s) == StripFrom(s, 1)

\* str.splitlines(): the text between newlines, without a last empty line.
RECURSIVE SplitFrom(_, _, _)
SplitFrom(s, i, line) ==
  IF i > Len(s) THEN (IF line = <<>> THEN <<>> ELSE <<line>>)
  ELSE IF s[i] = NL THEN <<line>> \o SplitFrom(s, i + 1, <<>>)
  ELSE SplitFrom(s, i + 1, Append(line, s[i]))

SplitLines(s) == SplitFrom(s, 1, <<>>)

\* Keeps the first occurrence of each line.
RECURSIVE Unique(_, _)
Unique(lines, seen) ==
  IF lines = <<>> THEN <<>>
  ELSE IF Head(lines) \in seen THEN Unique(Tail(lines), seen)
  ELSE <<Head(lines)>> \o Unique(Tail(lines), seen \cup {Head(lines)})

RECURSIVE Join(_)
Join(lines) ==
  IF lines = <<>> THEN <<>>
  ELSE IF Len(lines) = 1 THEN Head(lines)
  ELSE Head(lines) \o <<NL>> \o Join(Tail(lines))

DeduplicateLines(s) == Join(Unique(SplitLines(s), {}))

\* The length of the run of character c that starts at position i.
RECURSIVE RunLength(_, _, _)
RunLength(s, i, c) ==
  IF i > Len(s) \/ s[i] # c THEN 0 ELSE 1 + RunLength(s, i + 1, c)

\* re.sub of a run of at least least characters c by the text to.
RECURSIVE CollapseFrom(_, _, _, _, _)
CollapseFrom(s, i, c, least, to) ==
  IF i > Len(s) THEN <<>>
  ELSE LET n == RunLength(s, i, c)
       IN IF n >= least THEN to \o CollapseFrom(s, i + n, c, least, to)
          ELSE <<s[i]>> \o CollapseFrom(s, i + 1, c, least, to)

CollapseWhitespace(s) ==
  CollapseFrom(CollapseFrom(s, 1, NL, 3, <<NL, NL>>), 1, " ", 2, <<" ">>)

Ellipsis == <<NL, ".", ".", ".", NL>>

\* processed[-tail:]: the last tail characters, and the whole text when tail
\* is 0.
LastChars(s, tail) ==
  IF tail = 0 \/ tail >= Len(s) THEN s ELSE SubSeq(s, Len(s) - tail + 1, Len(s))

Truncate(s, max_chars) ==
  IF Len(s) > max_chars
  THEN LET head == max_chars \div 2
           tail == max_chars - head
       IN SubSeq(s, 1, head) \o Ellipsis \o LastChars(s, tail)
  ELSE s

TrimArgs ==
  [text : Texts, max_chars : 0..MaxChars, strip_code : BOOLEAN,
   deduplicate_lines : BOOLEAN, collapse_whitespace : BOOLEAN]

Processed(a) ==
  LET stripped == IF a.strip_code THEN StripCode(a.text) ELSE a.text
      deduped == IF a.deduplicate_lines THEN DeduplicateLines(stripped) ELSE stripped
      collapsed == IF a.collapse_whitespace THEN CollapseWhitespace(deduped) ELSE deduped
  IN Truncate(collapsed, a.max_chars)

TrimmerExecute(a) ==
  [observation |-> Processed(a),
   original_length |-> Len(a.text),
   final_length |-> Len(Processed(a)),
   reduction |-> IF Len(a.text) > Len(Processed(a))
                 THEN Len(a.text) - Len(Processed(a)) ELSE 0,
   success |-> TRUE]

NoTrim == [args |-> None, out |-> None]

\* ------------------------------------------------------------------ server
\* The websocket connections open at the same time, and the log chunks a
\* task writes.
NumConnections == 2

Connections == 1..NumConnections

MaxChunks == 2

\* A connection: st is "open" (waiting for a message), "streaming" (inside
\* _stream_task_over_websocket) or "sent" (the stream has ended); alive is
\* task_thread.is_alive(); left the chunks the task has yet to log; stop the
\* stop flag of the task; got the owners of the chunks sent over this
\* websocket, in order; early whether the stream left its loop by a break.
NoStream == [st |-> "open", alive |-> FALSE, left |-> 0, stop |-> FALSE,
             got |-> <<>>, early |-> FALSE]

\* -------------------------------------------------------------------- state
VARIABLES
  pc,        \* per caller: "idle", "exec_wait" and "cleanup_wait" (queued on the
             \* lock), "search", "llm", "sleep" (suspended in that await of execute)
  req,       \* per caller: the arguments of its execute call
  drv,       \* per caller: the local variable `driver` of its execute call
  locked,    \* asyncio.Lock._locked of self.lock
  waiters,   \* asyncio.Lock._waiters of self.lock, in arrival order
  driver,    \* self.driver: 0 is None, h > 0 the h-th browser launched
  launched,  \* browsers launched so far
  quits,     \* quit() calls made on each handle
  tabs,      \* URL of each window of the live browser, in window_handles order
  cur,       \* position of the current window in tabs
  scrollY,   \* window.scrollY of the current page
  dom,       \* 1 when a script has changed the current page's elements
  snap,      \* the element listing of the last state snapshot the agent kept
  ev,        \* the last run of a coroutine: who ran which call with which
             \* arguments, whether it issued browser commands (and on which
             \* handle), whether the call returned, and what it returned
  trim,      \* TokenTrimmer: the arguments of an execute call and its result
  ws,        \* server: per websocket connection, its stream and its task thread
  logq       \* server: app.logger.log_queue, the owner of each queued chunk

vars == <<pc, req, drv, locked, waiters, driver, launched, quits, tabs, cur, scrollY, dom, snap, ev,
          trim, ws, logq>>

\* The state of the browser tool, and the state outside it.
toolVars == <<pc, req, drv, locked, waiters, driver, launched, quits, tabs, cur, scrollY, dom, snap, ev>>

outside == <<trim, ws, logq>>

Session ==
  [driver |-> driver, launched |-> launched, quits |-> quits, tabs |-> tabs,
   cur |-> cur, scrollY |-> scrollY, dom |-> dom]

SetSession(s) ==
  /\ driver' = s.driver
  /\ launched' = s.launched
  /\ quits' = s.quits
  /\ tabs' = s.tabs
  /\ cur' = s.cur
  /\ scrollY' = s.scrollY
  /\ dom' = s.dom

NoEvent ==
  [who |-> 0, op |-> "none", req |-> NoReq, cmd |-> FALSE, h |-> 0,
   done |-> FALSE, res |-> NoResult, raised |-> FALSE, elem |-> 0, cause |-> "none",
   sleep |-> None]

InitTool ==
  /\ pc = [p \in Coroutines |-> "idle"]
  /\ req = [p \in Coroutines |-> NoReq]
  /\ drv = [p \in Coroutines |-> 0]
  /\ locked = FALSE
  /\ waiters = <<>>
  /\ driver = 0
  /\ launched = 0
  /\ quits = NoQuits
  /\ tabs = <<>>
  /\ cur = 0
  /\ scrollY = 0
  /\ dom = 0
  /\ snap = None
  /\ ev = NoEvent

\* No websocket connection has sent a message yet.
InitServer ==
  /\ ws = [c \in Connections |-> NoStream]
  /\ logq = <<>>

Init ==
  /\ InitTool
  /\ trim = NoTrim
  /\ InitServer

\* --------------------------------------------------------------------- lock
LockAlwaysFree == TRUE

\* asyncio.Lock.acquire returns at once when the lock is not held and nobody
\* is queued; otherwise the caller is queued and suspended.
LockFree == ~locked /\ waiters = <<>>

WakeUpLast(w) == w[Len(w)]

\* release() wakes the first waiter of the queue.
WakeUp(w) == Head(w)

\* The woken waiter takes its entry out of the queue.
Remove(w, p) == SelectSeq(w, LAMBDA q : q # p)

ReleasedAtAwait(o) == FALSE

ReleaseOnSuccessOnly(o) == o.next # "return" \/ o.res.error # None \/ o.raised

\* `async with self.lock` (lines 191, 425): the lock stays held while the
\* coroutine is suspended inside the block and is released when the block is
\* left, by a return or by an exception.
HeldAfter(o) == o.next # "return"

\* One run of caller p's coroutine with outcome o: h is the handle its browser
\* commands went to.
Run(p, op, r, o, h) ==
  /\ SetSession(o.s)
  /\ pc' = [pc EXCEPT ![p] = IF o.next = "return" THEN "idle" ELSE o.next]
  /\ req' = [req EXCEPT ![p] = IF o.next = "return" THEN NoReq ELSE r]
  /\ drv' = [drv EXCEPT ![p] = IF o.next = "return" THEN 0 ELSE o.s.driver]
  /\ snap' = snap
  /\ UNCHANGED outside
  /\ ev' = [who |-> p, op |-> op, req |-> r,
            cmd |-> o.cmd, h |-> IF o.cmd THEN h ELSE 0, done |-> o.next = "return",
            res |-> o.res, raised |-> o.raised, elem |-> o.elem, cause |-> o.cause,
            sleep |-> o.sleep]

Enqueue(p, r, at) ==
  /\ pc' = [pc EXCEPT ![p] = at]
  /\ req' = [req EXCEPT ![p] = r]
  /\ waiters' = Append(waiters, p)
  /\ UNCHANGED <<drv, locked, driver, launched, quits, tabs, cur, scrollY, dom, snap, ev>>
  /\ UNCHANGED outside

\* ------------------------------------------------------------------ actions
\* execute(action, ...) is called: with the lock free the body runs at once,
\* otherwise the call queues on the lock.
ExecuteCall(p, r) ==
  /\ pc[p] = "idle"
  /\ IF LockFree
       THEN \E o \in ExecuteBody(Session, r) :
              /\ Run(p, "execute", r, o, o.s.driver)
              /\ locked' = HeldAfter(o)
              /\ UNCHANGED waiters
       ELSE Enqueue(p, r, "exec_wait")

\* The first waiter is woken by the release and takes the lock.
ExecuteAcquire(p) ==
  /\ pc[p] = "exec_wait"
  /\ ~locked
  /\ waiters # <<>> /\ WakeUp(waiters) = p
  /\ waiters' = Remove(waiters, p)
  /\ \E o \in ExecuteBody(Session, req[p]) :
       /\ Run(p, "execute", req[p], o, o.s.driver)
       /\ locked' = HeldAfter(o)

SearchReturn(p) ==
  /\ pc[p] = "search"
  /\ \E resp \in SearchResponses : \E o \in AfterSearch(Session, req[p], drv[p], resp) :
       /\ Run(p, "execute", req[p], o, drv[p])
       /\ locked' = HeldAfter(o)
  /\ UNCHANGED waiters

LlmReturn(p) ==
  /\ pc[p] = "llm"
  /\ \E resp \in LlmResponses : \E o \in AfterLlm(Session, req[p], resp) :
       /\ Run(p, "execute", req[p], o, drv[p])
       /\ locked' = HeldAfter(o)
  /\ UNCHANGED waiters

SleepReturn(p) ==
  /\ pc[p] = "sleep"
  /\ \E o \in AfterSleep(Session, req[p]) :
       /\ Run(p, "execute", req[p], o, drv[p])
       /\ locked' = HeldAfter(o)
  /\ UNCHANGED waiters

\* get_current_state() runs from its call to its return without suspending,
\* and takes no lock.
GetCurrentStateCall(p) ==
  /\ pc[p] = "idle"
  /\ \E o \in GetCurrentState(Session) :
       Run(p, "get_current_state", EmptyReq("get_current_state"), o, o.s.driver)
  /\ UNCHANGED <<locked, waiters>>

CleanupCall(p) ==
  /\ pc[p] = "idle"
  /\ IF LockFree
       THEN \E o \in Cleanup(Session) :
              /\ Run(p, "cleanup", EmptyReq("cleanup"), o, driver)
              /\ locked' = HeldAfter(o)
              /\ UNCHANGED waiters
       ELSE Enqueue(p, EmptyReq("cleanup"), "cleanup_wait")

CleanupAcquire(p) ==
  /\ pc[p] = "cleanup_wait"
  /\ ~locked
  /\ waiters # <<>> /\ WakeUp(waiters) = p
  /\ waiters' = Remove(waiters, p)
  /\ \E o \in Cleanup(Session) :
       /\ Run(p, "cleanup", EmptyReq("cleanup"), o, driver)
       /\ locked' = HeldAfter(o)

\* Any number of coroutines call the tool concurrently.
Next ==
  \E p \in Callers :
    \/ \E r \in ConcRequests : ExecuteCall(p, r)
    \/ ExecuteAcquire(p)
    \/ SearchReturn(p)
    \/ LlmReturn(p)
    \/ SleepReturn(p)
    \/ GetCurrentStateCall(p)
    \/ CleanupCall(p)
    \/ CleanupAcquire(p)

Spec == Init /\ [][Next]_vars

\* One caller that awaits each call before the next, over the whole catalog.
NextSeq ==
  \/ \E r \in AllRequests : ExecuteCall(1, r)
  \/ SearchReturn(1)
  \/ LlmReturn(1)
  \/ SleepReturn(1)
  \/ GetCurrentStateCall(1)
  \/ CleanupCall(1)

SpecSeq == Init /\ [][NextSeq]_vars

\* ---------------------------------------------------------- fair scheduling
\* The requests of the callers under fair scheduling: one per suspension
\* point of execute.
LiveRequests ==
  {[EmptyReq("web_search") EXCEPT !.query = Some("x")],
   [EmptyReq("extract_content") EXCEPT !.goal = Some("x")],
   EmptyReq("wait")}

NextLive ==
  \E p \in LiveCallers :
    \/ \E r \in LiveRequests : ExecuteCall(p, r)
    \/ ExecuteAcquire(p)
    \/ SearchReturn(p)
    \/ LlmReturn(p)
    \/ SleepReturn(p)
    \/ CleanupCall(p)
    \/ CleanupAcquire(p)

\* The event loop runs every coroutine that is ready: a waiter woken by the
\* release of the lock, and a coroutine whose search call, language-model
\* call or sleep has finished; each of these finishes.
Fairness ==
  \A p \in LiveCallers :
    /\ WF_vars(ExecuteAcquire(p))
    /\ WF_vars(CleanupAcquire(p))
    /\ WF_vars(SearchReturn(p))
    /\ WF_vars(LlmReturn(p))
    /\ WF_vars(SleepReturn(p))

SpecLive == Init /\ [][NextLive]_vars /\ Fairness

\* ------------------------------------------------ the page and the agent
\* A script of the current page changes its elements; nothing of the tool
\* runs.
DomChange ==
  /\ driver # 0 /\ CurrentUrl(Session) # BlankUrl /\ dom = 0
  /\ dom' = 1
  /\ UNCHANGED <<pc, req, drv, locked, waiters, driver, launched, quits, tabs, cur,
                 scrollY, snap, ev>>
  /\ UNCHANGED outside

\* The agent keeps the element listing of the state snapshot it has just
\* been given, to choose the index of its next action from.
KeepSnapshot ==
  /\ ev.op = "get_current_state" /\ ev.res.output # None
  /\ snap # Some(ev.res.output[1].interactive_elements)
  /\ snap' = Some(ev.res.output[1].interactive_elements)
  /\ UNCHANGED <<pc, req, drv, locked, waiters, driver, launched, quits, tabs, cur,
                 scrollY, dom, ev>>
  /\ UNCHANGED outside

\* The requests of an agent that navigates and clicks by index.
DomRequests ==
  {[EmptyReq("go_to_url") EXCEPT !.url = Some(U1)]}
  \cup {[EmptyReq("click_element") EXCEPT !.index = i] : i \in {Some(0), Some(2)}}

\* One caller that snapshots, navigates and clicks while the page changes
\* under it.
NextDom ==
  \/ \E r \in DomRequests : ExecuteCall(1, r)
  \/ GetCurrentStateCall(1)
  \/ DomChange
  \/ KeepSnapshot

SpecDom == Init /\ [][NextDom]_vars

\* ------------------------------------------------- TokenTrimmer.execute
\* One call of TokenTrimmer.execute, for every text, budget and combination
\* of flags.
InitTrim ==
  /\ InitTool
  /\ InitServer
  /\ trim \in {[args |-> Some(a), out |-> None] : a \in TrimArgs}

TrimExecute ==
  /\ trim.args # None /\ trim.out = None
  /\ trim' = [trim EXCEPT !.out = Some(TrimmerExecute(trim.args[1]))]
  /\ UNCHANGED <<toolVars, ws, logq>>

NextTrim == TrimExecute

SpecTrim == InitTrim /\ [][NextTrim]_vars

\* ------------------------------------------------------- websocket server
\* The loop condition of _stream_task_over_websocket (line 38).
StreamLoops(c) == ws[c].alive \/ logq # <<>>

\* websocket_chat up to the start of the stream (lines 96-155): the message
\* of connection c starts its task thread, and the stream begins.
WsChat(c) ==
  /\ ws[c].st = "open"
  /\ ws' = [ws EXCEPT ![c] = [@ EXCEPT !.st = "streaming", !.alive = TRUE,
                                       !.left = MaxChunks]]
  /\ UNCHANGED <<toolVars, trim, logq>>

\* The task thread of connection c logs a chunk: it goes to the one
\* log_queue of the process.
TaskLog(c) ==
  /\ ws[c].alive /\ ws[c].left > 0
  /\ logq' = Append(logq, c)
  /\ ws' = [ws EXCEPT ![c].left = @ - 1]
  /\ UNCHANGED <<toolVars, trim>>

\* The task thread of connection c ends.
TaskEnd(c) ==
  /\ ws[c].alive
  /\ ws' = [ws EXCEPT ![c] = [@ EXCEPT !.alive = FALSE, !.left = 0]]
  /\ UNCHANGED <<toolVars, trim, logq>>

\* The stop flag of the task of connection c is set.
SetStop(c) ==
  /\ ws[c].st = "streaming" /\ ~ws[c].stop
  /\ ws' = [ws EXCEPT ![c].stop = TRUE]
  /\ UNCHANGED <<toolVars, trim, logq>>

\* One iteration of the loop that finds the stop flag set, or the timeout
\* passed, and breaks (lines 40-53).
StreamBreak(c) ==
  /\ ws[c].st = "streaming" /\ StreamLoops(c)
  /\ ws' = [ws EXCEPT ![c] = [@ EXCEPT !.st = "sent", !.early = TRUE]]
  /\ UNCHANGED <<toolVars, trim, logq>>

\* One iteration that takes the chunk at the head of log_queue and sends it
\* over the websocket of connection c (lines 55-66); a send that raises
\* breaks the loop with the chunk gone.
StreamSend(c) ==
  /\ ws[c].st = "streaming" /\ StreamLoops(c) /\ ~ws[c].stop
  /\ logq # <<>>
  /\ logq' = Tail(logq)
  /\ \/ ws' = [ws EXCEPT ![c].got = Append(@, Head(logq))]
     \/ ws' = [ws EXCEPT ![c] = [@ EXCEPT !.st = "sent", !.early = TRUE]]
  /\ UNCHANGED <<toolVars, trim>>

\* The loop ends: the thread is dead and log_queue is empty (line 38); the
\* final sentinel is sent (lines 88-92).
StreamEnd(c) ==
  /\ ws[c].st = "streaming" /\ ~StreamLoops(c)
  /\ ws' = [ws EXCEPT ![c].st = "sent"]
  /\ UNCHANGED <<toolVars, trim, logq>>

\* Connections, their task threads and their streams run concurrently.  An
\* iteration that finds log_queue empty sleeps (line 68) and changes nothing.
NextWs ==
  \E c \in Connections :
    \/ WsChat(c)
    \/ TaskLog(c)
    \/ TaskEnd(c)
    \/ SetStop(c)
    \/ StreamBreak(c)
    \/ StreamSend(c)
    \/ StreamEnd(c)

SpecWs == Init /\ [][NextWs]_vars

\* ------------------------------------------------------------------ claims
\* Caller p is inside the `async with self.lock` block of execute, suspended
\* in one of its awaits.
Suspended(p) == pc[p] \in {"search", "llm", "sleep"}

\* C1: while an execute call is between taking the lock and returning
\* (suspended in the search call, the language-model call or the sleep), the
\* last browser command issued by an execute call is its own: no other
\* execute call has issued a browser command since it took the lock.
C1_NoInterleaving ==
  \A p \in Callers :
    (Suspended(p) /\ ev.op = "execute" /\ ev.cmd) => ev.who = p

\* A second execute call is queued on the lock while the first, which has
\* issued browser commands, is suspended in its language-model call.
C1_Witness ==
  \E p, q \in Callers :
    /\ pc[p] = "llm" /\ pc[q] = "exec_wait"
    /\ ev.who = p /\ ev.cmd

\* C2: get_current_state takes the session lock, so its browser queries
\* never run while an execute call holds the lock.
C2_StateReadTakesLock ==
  \A p \in Callers :
    Suspended(p) => ~(ev.op = "get_current_state" /\ ev.cmd)

\* The actions whose required parameters have no default in the code.
ValidatedActions ==
  {"go_to_url", "web_search", "click_element", "input_text", "scroll_to_text",
   "send_keys", "get_dropdown_options", "select_dropdown_option",
   "extract_content", "switch_tab", "open_tab"}

\* C3: an execute call that omits a required parameter returns a failure
\* result without creating or touching the browser session: the call has
\* issued no command to any browser, so on a fresh instance no browser has
\* been launched by it.
C3_OmittedParamNoSession ==
  (ev.op = "execute" /\ ev.done /\ ev.req.action \in ValidatedActions /\ Omits(ev.req))
    => (ev.res.error # None /\ ev.res.output = None /\ ev.h = 0)

\* C4: an execute call with an action name outside the catalog returns a
\* failure result carrying that name and changes nothing: no session is
\* created, and the handle, the tabs, the active tab and the scroll position
\* of an existing session stay as they are.
C4_UnknownActionNoMutation ==
  [][(ev' # ev /\ ev'.op = "execute" /\ ev'.req.action = UnknownAction)
       => (/\ ev'.res.error # None /\ ev'.res.error[1].s = UnknownAction
           /\ UNCHANGED <<driver, launched, tabs, cur, scrollY>>)]_vars

\* C5: a request with a missing or empty required parameter is rejected
\* before the lock is taken, so it never waits for the lock.
C5_RejectedBeforeLock ==
  \A p \in Callers :
    pc[p] = "exec_wait" =>
      ~(req[p].action \in ValidatedActions /\ (Omits(req[p]) \/ GivesEmpty(req[p])))

\* C6: no exception leaves execute or get_current_state: every such call
\* that has ended has ended by returning, not by raising, whatever the
\* browser, the search collaborator or the language model did.
C6_NoFaultEscapes ==
  (ev.op \in {"execute", "get_current_state"} /\ ev.done)
    => ~ev.raised

\* A web search whose collaborator failed (it raised, or gave no results)
\* ended in the failure result of the except clause, before any browser
\* command was issued.
C6_Witness ==
  /\ ev.op = "execute" /\ ev.done /\ ~ev.cmd
  /\ ev.res.error = Some(Msg("Browser action failed", "web_search", 0))

\* C7: every result execute returns has exactly one of output and error
\* populated.
C7_ExactlyOnePopulated ==
  (ev.op = "execute" /\ ev.done)
    => ((ev.res.output # None) # (ev.res.error # None))

\* C8: the lock is held only by a call that is suspended inside its
\* `async with` block; with no call in progress the lock is free.
C8_LockReleased ==
  /\ locked => \E p \in Callers : Suspended(p)
  /\ (\A p \in Callers : pc[p] = "idle") => (~locked /\ waiters = <<>>)

\* cleanup has just left with the exception of quit(), and the lock is free.
C8_Witness ==
  /\ ev.op = "cleanup" /\ ev.raised
  /\ ~locked /\ \A p \in Callers : pc[p] = "idle"

\* C9: cleanup quits the browser and clears the handle only while no execute
\* call is inside its locked block, and an execute call issues browser
\* commands only on a handle that has not been quit.
C9_TeardownExcluded ==
  [][/\ (quits' # quits \/ (driver # 0 /\ driver' = 0)) => \A p \in Callers : ~Suspended(p)
     /\ (ev'.op = "execute" /\ ev'.cmd /\ ev'.h # 0) => quits[ev'.h] = 0]_vars

\* cleanup is queued on the lock behind an execute call that is suspended
\* with a live session.
C9_Witness ==
  \E p, q \in Callers :
    Suspended(p) /\ pc[q] = "cleanup_wait" /\ driver # 0 /\ drv[p] = driver

\* C10: cleanup with no session changes nothing; after any cleanup the handle
\* is absent; no browser is quit twice; an execute call that finds the handle
\* absent launches a new browser (or reports the failed launch).
C10_CleanupIdempotent ==
  /\ [](ev.op = "cleanup" => driver = 0)
  /\ [](\A h \in 1..MaxLaunch : quits[h] <= 1)
  /\ [][/\ (ev' # ev /\ ev'.op = "cleanup" /\ driver = 0)
            => UNCHANGED <<driver, launched, quits, tabs, cur, scrollY, dom>>
        /\ (ev' # ev /\ ev'.op = "execute" /\ driver = 0)
            => \/ driver' = launched + 1 /\ launched' = launched + 1 /\ quits'[driver'] = 0
               \/ driver' = 0 /\ ev'.res.error # None]_vars

\* A second cleanup found the handle already cleared by the first.
C10_Witness ==
  /\ ev.op = "cleanup" /\ ev.done /\ ~ev.cmd
  /\ launched = 1 /\ quits[1] = 1 /\ driver = 0

\* C11: at most one live session per tool instance, whatever the
\* interleaving of execute, get_current_state and cleanup: every browser
\* launched so far is the current handle or has had quit() called on it; a
\* browser is launched only when the handle is absent, and the new browser
\* becomes the handle; a handle that is present is returned unchanged.
C11_AtMostOneSession ==
  /\ [](\A h \in 1..launched : h = driver \/ quits[h] > 0)
  /\ [][/\ launched' # launched
             => (driver = 0 /\ launched' = launched + 1 /\ driver' = launched')
        /\ (driver # 0 /\ driver' # 0) => driver' = driver]_vars

\* get_current_state ran, outside the lock, while an execute call was
\* suspended on the second browser of the instance, and used that browser.
C11_Witness ==
  /\ \E p \in Callers : Suspended(p)
  /\ ev.op = "get_current_state" /\ ev.res.output # None /\ ev.h = driver
  /\ launched = 2 /\ quits[1] = 1

\* C12: a failed browser launch during an execute call reaches the caller of
\* that call as the failure result of the except clause, which carries the
\* action name (and the launch error's text); the handle stays absent, and the
\* next execute call attempts the launch again: it ends with a new browser as
\* the handle or with the launch failure reported again.
C12_LaunchFailureReported ==
  /\ []((ev.op = "execute" /\ ev.cause = "launch_failed")
          => (/\ ev.done /\ ~ev.raised /\ driver = 0
              /\ ev.res.error = Some(Msg("Browser action failed", ev.req.action, 0))
              /\ ev.res.output = None))
  /\ [][(ev.op = "execute" /\ ev.cause = "launch_failed" /\ ev'.op = "execute")
          => \/ driver' = launched + 1 /\ launched' = launched + 1
             \/ driver' = 0 /\ ev'.cause = "launch_failed"]_vars

\* The first action of a fresh instance ended with the launch failure.
C12_Witness ==
  /\ ev.op = "execute" /\ ev.cause = "launch_failed" /\ ev.res.error # None
  /\ launched = 0 /\ driver = 0

\* The actions that take an element index.
IndexedActions ==
  {"click_element", "input_text", "get_dropdown_options", "select_dropdown_option"}

\* The list an indexed action computes on session s: the find_elements call
\* of its branch (lines 230, 240, 274, 284).
ElementsOf(s, a) ==
  CASE a = "click_element" -> ClickableElements(s)
    [] a = "input_text" -> TextInputs(CurrentUrl(s))
    [] OTHER -> Selects(CurrentUrl(s))

\* The session an execute call that starts now works on: the live one, or
\* the one its own launch creates.
SessionBefore == IF driver = 0 THEN Launch(Session) ELSE Session

\* This step is an execute call of an indexed action that passed its
\* required-parameter check.
IndexedRun ==
  /\ ev'.op = "execute" /\ ev'.req.action \in IndexedActions
  /\ ev'.req.index # None
  /\ ev'.req.action \in {"input_text", "select_dropdown_option"} => ~Falsy(ev'.req.text)

\* C13: an indexed action whose index is greater than or equal to the number
\* of elements its category has on the current page returns a failure result
\* (the one naming that index, or the browser's own failure when the launch
\* or the element query raised), acts on no element and leaves the windows
\* as they were.
C13_IndexBeyondCount ==
  [][(IndexedRun /\ ev'.req.index[1] >= Len(ElementsOf(SessionBefore, ev'.req.action)))
       => (/\ ev'.elem = 0
           /\ ev'.res.output = None
           /\ ev'.res.error \in
                {Some(Msg("Element with index not found", "", ev'.req.index[1])),
                 Some(Msg("Browser action failed", ev'.req.action, 0))}
           /\ driver # 0 => UNCHANGED <<tabs, cur>>)]_vars

\* select_dropdown_option with index 2 on the page with two dropdowns was
\* refused with the failure naming index 2.
C13_Witness ==
  /\ ev.op = "execute" /\ ev.req.action = "select_dropdown_option"
  /\ ev.req.index = Some(2)
  /\ driver # 0 /\ Len(Selects(CurrentUrl(Session))) = 2
  /\ ev.res.error = Some(Msg("Element with index not found", "", 2))
  /\ ev.elem = 0

\* C14: an indexed action whose index is outside 0..count-1, negative indices
\* included, returns a failure result and acts on no element.
C14_IndexOutOfRange ==
  [][(IndexedRun /\ (\/ ev'.req.index[1] < 0
                     \/ ev'.req.index[1] >= Len(ElementsOf(SessionBefore, ev'.req.action))))
       => (ev'.elem = 0 /\ ev'.res.error # None /\ ev'.res.output = None)]_vars

\* The clickable elements of the page an execute call that starts now finds
\* in its window.
ClickablesNow == LiveClickables(CurrentUrl(SessionBefore), SessionBefore.dom)

\* C15: click_element with an index valid for the list of clickable elements
\* computed at the moment of execution acts on the element at that position
\* of that list, whatever an earlier snapshot listed at the index: it clicks
\* that element or, when the browser fails first, none.  (The steps of the
\* page and of the agent are not calls.)
C15_ResolvedAgainstFreshList ==
  [][(/\ ~(dom = 0 /\ dom' = 1) /\ snap' = snap
      /\ ev'.op = "execute" /\ ev'.req.action = "click_element" /\ ev'.req.index # None
      /\ ev'.req.index[1] >= 0
      /\ ev'.req.index[1] < Len(ClickablesNow))
       => (/\ ev'.elem \in {0, ClickablesNow[ev'.req.index[1] + 1]}
           /\ ev'.res.output # None => ev'.elem = ClickablesNow[ev'.req.index[1] + 1])]_vars

\* The agent kept the snapshot of the page as loaded, a script then changed
\* the page, and the click at an index of that snapshot landed on another
\* element than the one the snapshot lists at the index.
C15_Witness ==
  /\ ev.op = "execute" /\ ev.req.action = "click_element" /\ ev.res.output # None
  /\ driver # 0 /\ dom = 1
  /\ snap = Some(Clickables(CurrentUrl(Session)))
  /\ ev.req.index[1] < Len(snap[1])
  /\ ev.elem # snap[1][ev.req.index[1] + 1]

\* C16: close_tab on a session with exactly one open tab returns a failure
\* result and leaves that tab open and current; a live session always has at
\* least one open tab, and its current tab is one of them.
C16_LastTabStaysOpen ==
  /\ [](driver # 0 => (Len(tabs) >= 1 /\ cur \in 1..Len(tabs)))
  /\ [][(ev'.op = "execute" /\ ev'.req.action = "close_tab" /\ Len(SessionBefore.tabs) = 1)
          => (/\ ev'.res.error # None /\ ev'.res.output = None
              /\ driver' # 0 => (tabs' = SessionBefore.tabs /\ cur' = 1))]_vars

\* close_tab was refused on a live session with one open tab.
C16_Witness ==
  /\ ev.op = "execute" /\ ev.req.action = "close_tab"
  /\ ev.res.error = Some(Msg("Cannot close the last tab", "", 0))
  /\ driver # 0 /\ Len(tabs) = 1 /\ cur = 1

StateAfterOpenTab ==
  /\ ev.op = "execute" /\ ev.req.action = "open_tab" /\ ev.res.output # None
  /\ ev'.op = "get_current_state" /\ ev'.res.output # None

\* This step is a successful open_tab that leaves one tab more than the
\* session had, the new tab last and current, the other tabs as they were.
OpenTabAddsCurrentTab ==
  /\ Len(tabs') = Len(SessionBefore.tabs) + 1
  /\ cur' = Len(tabs')
  /\ SubSeq(tabs', 1, Len(tabs') - 1) = SessionBefore.tabs

\* C18, as amended: a successful open_tab(url) adds exactly one tab and makes
\* it the current one, and a get_current_state that follows reports that many
\* tabs, the new tab as the active one, and as its URL the requested URL in
\* the form the browser serialises it to.
C18_OpenTabRoundTrip ==
  [][/\ (ev'.op = "execute" /\ ev'.req.action = "open_tab" /\ ev'.res.output # None)
          => (OpenTabAddsCurrentTab /\ tabs'[cur'] = Normalize(ev'.req.url[1]))
     /\ StateAfterOpenTab
          => (/\ Len(ev'.res.output[1].tabs) = Len(tabs)
              /\ ev'.res.output[1].tabs[Len(tabs)] = Normalize(ev.req.url[1])
              /\ ev'.res.output[1].url = Normalize(ev.req.url[1]))]_vars

\* get_current_state reported two tabs with the second, on the page of the
\* requested URL, as the active one.
C18_Witness ==
  /\ ev.op = "get_current_state" /\ ev.res.output # None
  /\ Len(ev.res.output[1].tabs) = 2
  /\ ev.res.output[1].tabs = <<"", Normalize(U1)>>
  /\ ev.res.output[1].url = Normalize(U1)

\* C18, as stated: the URL get_current_state reports for the new tab after a
\* successful open_tab(url) equals the requested URL, with the tab count one
\* greater and the new tab active.
C18_ReportedUrlEqualsRequested ==
  [][/\ (ev'.op = "execute" /\ ev'.req.action = "open_tab" /\ ev'.res.output # None)
          => OpenTabAddsCurrentTab
     /\ StateAfterOpenTab
          => (/\ Len(ev'.res.output[1].tabs) = Len(tabs)
              /\ ev'.res.output[1].tabs[Len(tabs)] = ev.req.url[1]
              /\ ev'.res.output[1].url = ev.req.url[1])]_vars

\* C19: switch_tab with a tab_id outside 0..tabs-1, negative values included,
\* returns a failure result and leaves the active tab and the tabs as they
\* were; with a tab_id in range it changes neither the number nor the order
\* of the tabs and, when it succeeds, makes the tab at that position the
\* active one.
C19_SwitchTabRange ==
  [][(ev'.op = "execute" /\ ev'.req.action = "switch_tab" /\ ev'.req.tab_id # None)
       => IF ev'.req.tab_id[1] < 0 \/ ev'.req.tab_id[1] >= Len(SessionBefore.tabs)
            THEN /\ ev'.res.error # None /\ ev'.res.output = None
                 /\ driver' # 0 => (cur' = SessionBefore.cur /\ tabs' = SessionBefore.tabs)
            ELSE /\ driver' # 0 => tabs' = SessionBefore.tabs
                 /\ ev'.res.output # None => cur' = ev'.req.tab_id[1] + 1]_vars

\* C20: an extract_content call with a non-empty goal whose language-model
\* call gave no response, or a response without tool calls, returns a success
\* result whose output says that nothing was extracted, and no error.
C20_NothingExtractedIsSuccess ==
  (/\ ev.op = "execute" /\ ev.req.action = "extract_content" /\ ev.done
   /\ ev.cause \in {"no_response", "no_tool_calls"})
    => (/\ ~Falsy(ev.req.goal)
        /\ ev.res.output = Some(Msg("No content was extracted from the page.", "", 0))
        /\ ev.res.error = None
        /\ ~ev.raised)

\* The language model answered an extraction request without a tool call.
C20_Witness ==
  /\ ev.op = "execute" /\ ev.req.action = "extract_content" /\ ev.done
  /\ ev.req.goal = Some("x")
  /\ ev.cause = "no_tool_calls"
  /\ ev.res.output # None

\* C21: an extract_content call whose language-model answer carries a tool
\* call with arguments that cannot be parsed (not JSON, or JSON that is not
\* an object) returns the failure result of the except clause: never the
\* "nothing extracted" success, never any other success.
C21_UnparsableArgsFail ==
  (/\ ev.op = "execute" /\ ev.req.action = "extract_content" /\ ev.done
   /\ ev.cause \in {"malformed_args", "non_object_args"})
    => (/\ ev.res.error = Some(Msg("Browser action failed", "extract_content", 0))
        /\ ev.res.output = None
        /\ ~ev.raised)

\* The language model answered an extraction request with a tool call whose
\* arguments are not JSON.
C21_Witness ==
  /\ ev.op = "execute" /\ ev.req.action = "extract_content" /\ ev.done
  /\ ev.cause = "malformed_args"
  /\ ev.res.error # None

\* C22: a wait call (whose session was acquired) suspends in a sleep of 3
\* when seconds is not given and of exactly the given value otherwise, and
\* returns the success result that states the duration it slept for.
C22_WaitDuration ==
  /\ []((ev.op = "execute" /\ ev.req.action = "wait" /\ ~ev.done)
          => ev.sleep = IF ev.req.seconds = None THEN Some(3) ELSE ev.req.seconds)
  /\ []((ev.op = "execute" /\ ev.req.action = "wait" /\ ev.done
         /\ ev.cause # "launch_failed")
          => (/\ ev.res.error = None
              /\ ev.res.output =
                   Some(Msg("Waited for", "seconds",
                            IF ev.req.seconds = None THEN 3 ELSE ev.req.seconds[1]))))
  /\ [][(/\ ev.op = "execute" /\ ev.req.action = "wait" /\ ~ev.done
         /\ ev'.op = "execute" /\ ev'.done)
          => (ev'.req = ev.req /\ ev'.res.output # None
              /\ ev'.res.output[1].n = ev.sleep[1])]_vars

\* A wait without seconds has returned after its sleep.
C22_Witness ==
  /\ ev.op = "execute" /\ ev.req.action = "wait" /\ ev.done
  /\ ev.req.seconds = None
  /\ ev.res.output = Some(Msg("Waited for", "seconds", 3))

\* C23: get_current_state on a live session leaves the handle, the tabs and
\* their order, the active tab, the current URL and the scroll position as
\* they were, whether it returns the snapshot or a failure.
C23_StateReadOnly ==
  [][(ev'.op = "get_current_state" /\ driver # 0)
       => (/\ UNCHANGED <<driver, launched, quits, tabs, cur, scrollY>>
           /\ CurrentUrl(Session)' = CurrentUrl(Session))]_vars

\* A snapshot was returned for a session whose page is scrolled down.
C23_Witness ==
  /\ ev.op = "get_current_state" /\ ev.res.output # None
  /\ driver # 0 /\ scrollY = ScrollMax /\ CurrentUrl(Session) # BlankUrl

\* C24: get_current_state returns either a failure result with no output and
\* no image (always so when one of its queries raised), or a success result
\* with the URL, the tab list, the element listing and the screenshot
\* together.
C24_SnapshotAllOrNothing ==
  ev.op = "get_current_state"
    => /\ \/ ev.res.error # None /\ ev.res.output = None /\ ev.res.base64_image = None
          \/ /\ ev.res.error = None /\ ev.res.output # None /\ ev.res.base64_image # None
             /\ driver # 0
             /\ ev.res.output[1].url = CurrentUrl(Session)
             /\ Len(ev.res.output[1].tabs) = Len(tabs)
             /\ ev.res.output[1].interactive_elements = LiveClickables(CurrentUrl(Session), dom)
       /\ ev.cause \in StateQueries \cup {"launch_failed"} => ev.res.error # None

\* The screenshot query of a snapshot raised on a live session, after the
\* element listing and the scroll metrics had been read.
C24_Witness ==
  /\ ev.op = "get_current_state" /\ ev.cause = "screenshot"
  /\ ev.res.error # None /\ ev.res.output = None
  /\ driver # 0

\* C25: TokenTrimmer.execute truncates to max_chars: for every text, every
\* combination of the three flags and every max_chars >= 0, the observation
\* returned has at most max_chars characters and final_length is the length
\* of the observation.
C25_TruncatesToMaxChars ==
  trim.out # None =>
    /\ Len(trim.out[1].observation) <= trim.args[1].max_chars
    /\ trim.out[1].final_length = Len(trim.out[1].observation)

\* This step ends an execute call with the failure result of the except
\* clause after a browser command of the action raised.
CommandFailed(e) ==
  /\ e.op = "execute" /\ e.done /\ e.cmd /\ e.cause # "launch_failed"
  /\ e.res.error # None
  /\ e.res.error[1].text \in {"Browser action failed",
                              "Browser action failed: list index out of range"}

C27_SearchNavigatesToFirstResult ==
  /\ [][(ev'.op = "execute" /\ ev'.cause = "results")
          => (/\ ev'.req.action = "web_search" /\ ~Falsy(ev'.req.query) /\ ev'.done
              /\ \/ /\ ev'.res.error = Some(Msg("Browser action failed", "web_search", 0))
                    /\ ev'.res.output = None
                 \/ /\ ev'.cmd /\ ev'.h = driver
                    /\ tabs' = [tabs EXCEPT ![cur] = Normalize(Head(Ranking))]
                    /\ cur' = cur
                    /\ ev'.res \in {[output |-> x.output, error |-> x.error,
                                     base64_image |-> None] : x \in SearchResponses})]_vars
  /\ [][(ev'.op = "execute" /\ ev'.cause = "no_results")
          => (/\ ev'.req.action = "web_search" /\ ev'.done
              /\ ev'.res.error # None /\ ev'.res.output = None
              /\ ~ev'.cmd
              /\ tabs' = tabs /\ cur' = cur /\ driver' = driver)]_vars

\* A search that gave results has returned the collaborator's response with
\* the current window, the second one, on the first result's page.
C27_Witness ==
  /\ ev.op = "execute" /\ ev.cause = "results" /\ ev.res.error = None
  /\ ev.res.output # None
  /\ Len(tabs) = 2 /\ cur = 2 /\ tabs[2] = Normalize(Head(Ranking)) /\ tabs[1] = P1

\* The texts of the early returns that reject a call for a missing parameter
\* (lines 201, 218, 229, 239, 255, 265, 273, 283, 294, 348, 357).
RequiredTexts ==
  {"URL is required", "Query is required", "Index is required",
   "Index and text are required", "Text is required", "Keys are required",
   "Goal is required", "Tab ID is required"}

RejectedAsMissing(res) == res.error # None /\ res.error[1].text \in RequiredTexts

\* C29: a numeric parameter equal to zero counts as supplied.  index 0 and
\* tab_id 0 are never rejected as missing and address the first element or
\* tab; seconds 0 and scroll_amount 0 are used as given, not replaced by the
\* defaults 3 and 1080; an empty string for url, text, query, goal or keys is
\* rejected as missing, with the session untouched.
C29_ZeroCountsAsSupplied ==
  /\ [][(IndexedRun /\ ev'.req.index = Some(0))
          => (/\ ~RejectedAsMissing(ev'.res)
              /\ (ev'.elem # 0 \/ ev'.res.output # None)
                   => (/\ ElementsOf(SessionBefore, ev'.req.action) # <<>>
                       /\ ev'.elem = ElementsOf(SessionBefore, ev'.req.action)[1]))]_vars
  /\ [][(ev'.op = "execute" /\ ev'.req.action = "switch_tab" /\ ev'.req.tab_id = Some(0))
          => (/\ ~RejectedAsMissing(ev'.res)
              /\ ev'.res.output # None => (cur' = 1 /\ tabs' = SessionBefore.tabs))]_vars
  /\ []((ev.op = "execute" /\ ev.req.action = "wait" /\ ev.req.seconds = Some(0))
          => (/\ ~ev.done => ev.sleep = Some(0)
              /\ (ev.done /\ ev.cause # "launch_failed")
                   => ev.res.output = Some(Msg("Waited for", "seconds", 0))))
  /\ [][(/\ ev'.op = "execute" /\ ev'.req.action \in {"scroll_down", "scroll_up"}
         /\ ev'.req.scroll_amount = Some(0) /\ ev'.res.output # None)
          => (ev'.res.output[1].n = 0 /\ scrollY' = SessionBefore.scrollY)]_vars
  /\ [][(ev'.op = "execute" /\ GivesEmpty(ev'.req) /\ ev'.cause # "launch_failed")
          => (/\ ev'.done /\ RejectedAsMissing(ev'.res) /\ ev'.res.output = None
              /\ ev'.elem = 0
              /\ tabs' = SessionBefore.tabs /\ cur' = SessionBefore.cur
              /\ scrollY' = SessionBefore.scrollY)]_vars

\* A scroll_up by 0 pixels succeeded on a page scrolled to its end and left
\* it there.
C29_Witness ==
  /\ ev.op = "execute" /\ ev.req.action = "scroll_up" /\ ev.req.scroll_amount = Some(0)
  /\ ev.res.output = Some(Msg("Scrolled up by", "pixels", 0))
  /\ scrollY = ScrollMax /\ ScrollMax > 0

\* Caller p is queued on the lock.
Queued(p) == pc[p] \in {"exec_wait", "cleanup_wait"}

\* C28: no deadlock or starvation on the session lock.  With the event loop
\* running every ready coroutine, and every search call, language-model call
\* and sleep finishing, every execute and cleanup call that was invoked
\* returns; callers join the queue of the lock in the order of their calls,
\* leave it from its front only, and no call takes the lock past a queued
\* caller.
C28_NoStarvationFifo ==
  /\ \A p \in LiveCallers : (pc[p] # "idle") ~> (pc[p] = "idle")
  /\ [][\A p \in LiveCallers :
          /\ (~Queued(p) /\ Queued(p)') => waiters' = Append(waiters, p)
          /\ (Queued(p) /\ ~Queued(p)')
               => (~locked /\ p = Head(waiters) /\ waiters' = Tail(waiters))
          /\ (pc[p] = "idle" /\ waiters' = waiters /\ ev'.who = p
              /\ ev'.op \in {"execute", "cleanup"})
               => (~locked /\ waiters = <<>>)]_vars

\* Two callers are queued on the lock while a third is suspended in its
\* search call.
C28_Witness ==
  /\ locked /\ Len(waiters) = 2
  /\ \E p \in LiveCallers : pc[p] = "search"

\* The chunks waiting in log_queue that the task of connection c logged.
QueuedOf(c) == {i \in DOMAIN logq : logq[i] = c}

\* C30: with two websocket streams active at the same time, every chunk a
\* task logs is sent only to the websocket that started that task, and a
\* stream that stopped early (stop flag or timeout) leaves none of its task's
\* chunks in the queue for a later stream.
C30_ChunksReachOwnStream ==
  \A c \in Connections :
    /\ \A i \in DOMAIN ws[c].got : ws[c].got[i] = c
    /\ (ws[c].st = "sent" /\ ws[c].early /\ ~ws[c].alive) => QueuedOf(c) = {}

====
